---- MODULE Spec2Model ----
(***************************************************************************)
(* Plume-strike replay and sliding-window constraint engine of PyRPOD:     *)
(* RPOD.jfh_plume_strikes with its helpers update_window_queue and         *)
(* update_parameter_queue (src/pyrpod/RPOD.py).                            *)
(*                                                                         *)
(* Numbers are integers.  Lengths and angles are compared through exact    *)
(* squared forms, so no square root or arccos is ever rounded.             *)
(***************************************************************************)
EXTENDS Integers, Sequences, FiniteSets, TLC

\* ------------------------------------------------------------------ bounds
\* Number of faces of the target mesh, len(target.vectors).
NumFaces == 3
\* Largest number of firings read from the jet firing history.
MaxFirings == 3

Faces == 0 .. (NumFaces - 1)

\* ------------------------------------------------------------ vector algebra
Dot(u, v) == u[1] * v[1] + u[2] * v[2] + u[3] * v[3]
VecAdd(u, v) == <<u[1] + v[1], u[2] + v[2], u[3] + v[3]>>
VecSub(u, v) == <<u[1] - v[1], u[2] - v[2], u[3] - v[3]>>
\* np.array(m).transpose()
Transpose(m) == [r \in 1..3 |-> [c \in 1..3 |-> m[c][r]]]
\* a.dot(b) for 3x3 matrices
MatMul(a, b) ==
    [r \in 1..3 |-> [c \in 1..3 |-> a[r][1] * b[1][c] + a[r][2] * b[2][c] + a[r][3] * b[3][c]]]
Abs(x) == IF x < 0 THEN -x ELSE x

RECURSIVE SumSeq(_)
SumSeq(s) == IF s = <<>> THEN 0 ELSE Head(s) + SumSeq(Tail(s))

Identity == <<<<1, 0, 0>>, <<0, 1, 0>>, <<0, 0, 1>>>>
\* Rotation by a quarter turn about z.
RotZ == <<<<0, -1, 0>>, <<1, 0, 0>>, <<0, 0, 1>>>>

\* --------------------------------------------------------- study assets
\* target.vectors: three vertices per face.  Coordinates are chosen so that
\* the centroid (the mean of the vertices) is an integer point.  The third
\* face is degenerate: its vertices are collinear, so its normal is zero.
TargetVectors ==
    <<  <<<<3, 3, 0>>, <<3, -3, 3>>, <<3, 0, -3>>>>,
        <<<<3, 3, 0>>, <<-3, 3, 3>>, <<0, 3, -3>>>>,
        <<<<6, 3, 0>>, <<6, 0, 0>>, <<6, -3, 0>>>>,
        <<<<3, 6, 0>>, <<-3, 6, 3>>, <<0, 6, -3>>>>  >>
\* target.get_unit_normals(); a zero normal is left as it is.
TargetNormals ==
    <<  <<-1, 0, 0>>, <<0, -1, 0>>, <<0, 0, 0>>, <<0, -1, 0>>  >>

\* self.vv.thruster_data, in insertion order; 'name' and 'type' are lists,
\* 'exit' is a 1x3 nested list, as read from the thruster configuration.
ThrusterOrder == <<"T1", "T2", "T3", "T4">>
ThrusterData ==
    [id \in {"T1", "T2", "T3", "T4"} |->
        CASE id = "T1" -> [name |-> <<"T1">>, dcm |-> Identity, exit |-> <<<<1, 0, 0>>>>, type |-> <<"A">>]
          [] id = "T2" -> [name |-> <<"T2">>, dcm |-> RotZ, exit |-> <<<<0, 1, 0>>>>, type |-> <<"B">>]
          [] id = "T3" -> [name |-> <<"T3">>, dcm |-> Identity, exit |-> <<<<2, 0, 0>>>>, type |-> <<"A">>]
          [] id = "T4" -> [name |-> <<"T4">>, dcm |-> Identity, exit |-> <<<<2, 0, 0>>>>, type |-> <<"B">>]]

\* self.vv.thruster_metrics: the kinetic parameters of each thruster type.
ThrusterMetrics ==
    [ty \in {"A", "B"} |->
        IF ty = "A" THEN [pressure |-> 5, shear |-> -2, heat_flux |-> 1]
                    ELSE [pressure |-> 3, shear |-> 4, heat_flux |-> 2]]

\* link[str(i)] = thruster_data[thruster]['name'], numbered from 1.
link(n) == ThrusterData[ThrusterOrder[n]].name

\* The rarefied-gas kinetics model, a black box of the strike geometry and
\* the thruster metrics: get_pressure, get_shear_pressure, get_heat_flux.
SimplifiedGasKinetics(norm_distance2, theta_dot, thruster_metrics, T_w, sigma) ==
    [pressure |-> thruster_metrics.pressure,
     shear |-> thruster_metrics.shear,
     heat_flux |-> thruster_metrics.heat_flux]

\* ------------------------------------------------------- strike detection
\* Centroid of a face: the mean of each coordinate over its three vertices.
Centroid(face) ==
    <<(face[1][1] + face[2][1] + face[3][1]) \div 3,
      (face[1][2] + face[2][2] + face[3][2]) \div 3,
      (face[1][3] + face[2][3] + face[3][3]) \div 3>>

\* vv_orientation = np.array(JFH[firing]['dcm']).transpose()
VVOrientation(rec) == Transpose(rec.dcm)

\* plume_normal: row 0 of (thruster dcm transposed) . vv_orientation
PlumeNormal(thruster_id, rec) ==
    MatMul(Transpose(ThrusterData[thruster_id].dcm), VVOrientation(rec))[1]

\* thruster_pos = (vv_pos + exit)[0]: the 1x3 exit offset is added to the
\* vehicle position as it stands; the vehicle orientation is not applied.
ThrusterPos(thruster_id, rec) ==
    LET exit == ThrusterData[thruster_id].exit
        summed == [r \in 1..Len(exit) |-> VecAdd(rec.xyz, exit[r])]
    IN  summed[1]

\* float(norm_distance) < float(config['plume']['radius']), on squares.
WithinDistance(distance, cfg) ==
    cfg.radius > 0 /\ Dot(distance, distance) < cfg.radius * cfg.radius

\* Variant: a zero distance vector counts as lying on the plume axis.
WithinThetaZeroInside(distance, plume_normal, cfg) ==
    LET d_a == Dot(distance, plume_normal)
    IN  \/ Dot(distance, distance) = 0
        \/ /\ d_a < 0
           /\ cfg.wedge_cos2_den * d_a * d_a
                 > cfg.wedge_cos2_num * Dot(distance, distance) * Dot(plume_normal, plume_normal)

\* theta = 3.14 - arccos(unit_distance . unit_plume_normal) < wedge_theta.
\* arccos decreases, so this is  unit_distance . unit_plume_normal <
\* cos(3.14 - wedge_theta); the configuration gives that cosine as
\* -sqrt(wedge_cos2_num / wedge_cos2_den).  A zero distance vector makes the
\* quotient nan, and every comparison with nan is false.
WithinTheta(distance, plume_normal, cfg) ==
    LET d_a == Dot(distance, plume_normal)
    IN  /\ d_a < 0
        /\ cfg.wedge_cos2_den * d_a * d_a
              > cfg.wedge_cos2_num * Dot(distance, distance) * Dot(plume_normal, plume_normal)

\* surface_dot_plume = n . unit_plume < 0
FacingThruster(i, plume_normal) == Dot(TargetNormals[i + 1], plume_normal) < 0

IsStrike(i, thruster_id, rec, cfg) ==
    LET plume_normal == PlumeNormal(thruster_id, rec)
        distance == VecSub(ThrusterPos(thruster_id, rec), Centroid(TargetVectors[i + 1]))
    IN  /\ WithinDistance(distance, cfg)
        /\ WithinTheta(distance, plume_normal, cfg)
        /\ FacingThruster(i, plume_normal)

\* The kinetics outputs of one strike of thruster_id on face i.
PlumeOf(i, thruster_id, rec, cfg) ==
    LET plume_normal == PlumeNormal(thruster_id, rec)
        distance == VecSub(ThrusterPos(thruster_id, rec), Centroid(TargetVectors[i + 1]))
    IN  SimplifiedGasKinetics(Dot(distance, distance), Dot(distance, plume_normal),
                              ThrusterMetrics[ThrusterData[thruster_id].type[1]],
                              cfg.surface_temp, cfg.sigma)

\* Variant: the latest value is kept instead of the largest.
RunningMaxLatest(cur_max, value) == value

\* Running maximum, updated inside the thruster loop with the sum so far.
RunningMax(cur_max, value) == IF value > cur_max THEN value ELSE cur_max

\* Variant: the running maxima follow each thruster's own contribution
\* instead of the sum over the thrusters so far.
StrikeFacePerThruster(cs, i, thruster_id, rec, cfg) ==
    IF ~IsStrike(i, thruster_id, rec, cfg) THEN cs
    ELSE
      LET struck == [cs EXCEPT !.cum_strikes[i] = @ + 1, !.strikes[i] = 1]
          simple_plume == PlumeOf(i, thruster_id, rec, cfg)
      IN  IF cfg.kinetics # "Simplified" THEN struck
          ELSE [struck EXCEPT
                  !.pressures[i] = @ + simple_plume.pressure,
                  !.max_pressures[i] = RunningMax(@, simple_plume.pressure),
                  !.shear_stresses[i] = @ + Abs(simple_plume.shear),
                  !.max_shears[i] = RunningMax(@, Abs(simple_plume.shear)),
                  !.heat_flux[i] = @ + simple_plume.heat_flux,
                  !.heat_flux_load[i] = @ + simple_plume.heat_flux * rec.t,
                  !.cum_heat_flux_load[i] = @ + simple_plume.heat_flux * rec.t]

\* Variant: each strike overwrites the face's this-firing values, so the
\* last striking thruster of the list decides them.
StrikeFaceLastWins(cs, i, thruster_id, rec, cfg) ==
    IF ~IsStrike(i, thruster_id, rec, cfg) THEN cs
    ELSE
      LET struck == [cs EXCEPT !.cum_strikes[i] = @ + 1, !.strikes[i] = 1]
          simple_plume == PlumeOf(i, thruster_id, rec, cfg)
      IN  IF cfg.kinetics # "Simplified" THEN struck
          ELSE [struck EXCEPT
                  !.pressures[i] = simple_plume.pressure,
                  !.max_pressures[i] = RunningMax(@, simple_plume.pressure),
                  !.shear_stresses[i] = Abs(simple_plume.shear),
                  !.max_shears[i] = RunningMax(@, Abs(simple_plume.shear)),
                  !.heat_flux[i] = simple_plume.heat_flux,
                  !.heat_flux_load[i] = simple_plume.heat_flux * rec.t,
                  !.cum_heat_flux_load[i] = @ + simple_plume.heat_flux * rec.t]

\* Variant: cum_strikes counts a face once per firing, however many
\* thrusters strike it.
StrikeFaceCountedOnce(cs, i, thruster_id, rec, cfg) ==
    IF ~IsStrike(i, thruster_id, rec, cfg) THEN cs
    ELSE
      LET struck == [cs EXCEPT !.cum_strikes[i] = IF cs.strikes[i] = 1 THEN @ ELSE @ + 1,
                               !.strikes[i] = 1]
          simple_plume == PlumeOf(i, thruster_id, rec, cfg)
          p == cs.pressures[i] + simple_plume.pressure
          s == cs.shear_stresses[i] + Abs(simple_plume.shear)
      IN  IF cfg.kinetics # "Simplified" THEN struck
          ELSE [struck EXCEPT
                  !.pressures[i] = p,
                  !.max_pressures[i] = RunningMax(@, p),
                  !.shear_stresses[i] = s,
                  !.max_shears[i] = RunningMax(@, s),
                  !.heat_flux[i] = @ + simple_plume.heat_flux,
                  !.heat_flux_load[i] = @ + simple_plume.heat_flux * rec.t,
                  !.cum_heat_flux_load[i] = @ + simple_plume.heat_flux * rec.t]

\* Body of the face loop for one thruster and one face: cs is the per-cell
\* state (the arrays of the method), returned updated.
StrikeFace(cs, i, thruster_id, rec, cfg) ==
    IF ~IsStrike(i, thruster_id, rec, cfg) THEN cs
    ELSE
      LET struck == [cs EXCEPT !.cum_strikes[i] = @ + 1, !.strikes[i] = 1]
          simple_plume == PlumeOf(i, thruster_id, rec, cfg)
          p == cs.pressures[i] + simple_plume.pressure
          s == cs.shear_stresses[i] + Abs(simple_plume.shear)
      IN  IF cfg.kinetics # "Simplified" THEN struck
          ELSE [struck EXCEPT
                  !.pressures[i] = p,
                  !.max_pressures[i] = RunningMax(@, p),
                  !.shear_stresses[i] = s,
                  !.max_shears[i] = RunningMax(@, s),
                  !.heat_flux[i] = @ + simple_plume.heat_flux,
                  !.heat_flux_load[i] = @ + simple_plume.heat_flux * rec.t,
                  !.cum_heat_flux_load[i] = @ + simple_plume.heat_flux * rec.t]

\* for i, face in enumerate(target.vectors), from face i on.
RECURSIVE FaceLoop(_, _, _, _, _)
FaceLoop(cs, i, thruster_id, rec, cfg) ==
    IF i >= NumFaces THEN cs
    ELSE FaceLoop(StrikeFace(cs, i, thruster_id, rec, cfg), i + 1, thruster_id, rec, cfg)

\* for thruster in thrusters, over the rest of the list.
RECURSIVE ThrusterLoop(_, _, _, _)
ThrusterLoop(cs, thrusters, rec, cfg) ==
    IF thrusters = <<>> THEN cs
    ELSE LET thruster_id == link(Head(thrusters))[1]
         IN  ThrusterLoop(FaceLoop(cs, 0, thruster_id, rec, cfg), Tail(thrusters), rec, cfg)

\* An array of zeros, np.zeros(len(target.vectors)).
Zeros == [i \in Faces |-> 0]
\* A name that the method has not bound (kinetics disabled).
Unbound == <<>>

\* Variant: the pressures are zeroed before the first firing only.
ResetFiringKeepPressures(cs, cfg) ==
    IF cfg.kinetics # "None"
    THEN [cs EXCEPT !.strikes = Zeros, !.shear_stresses = Zeros,
                    !.pressures = IF @ = Unbound THEN Zeros ELSE @,
                    !.heat_flux = Zeros, !.heat_flux_load = Zeros]
    ELSE [cs EXCEPT !.strikes = Zeros]

\* Variant: heat_flux_load is zeroed before the first firing only.
ResetFiringKeepLoad(cs, cfg) ==
    IF cfg.kinetics # "None"
    THEN [cs EXCEPT !.strikes = Zeros, !.pressures = Zeros, !.shear_stresses = Zeros,
                    !.heat_flux = Zeros,
                    !.heat_flux_load = IF @ = Unbound THEN Zeros ELSE @]
    ELSE [cs EXCEPT !.strikes = Zeros]

\* Variant: the cumulative heat-flux load is zeroed with the per-firing
\* arrays.
ResetFiringAlsoCumLoad(cs, cfg) ==
    IF cfg.kinetics # "None"
    THEN [cs EXCEPT !.strikes = Zeros, !.pressures = Zeros, !.shear_stresses = Zeros,
                    !.heat_flux = Zeros, !.heat_flux_load = Zeros,
                    !.cum_heat_flux_load = Zeros]
    ELSE [cs EXCEPT !.strikes = Zeros]

\* The per-firing resets at the top of the loop body.
ResetFiring(cs, cfg) ==
    IF cfg.kinetics # "None"
    THEN [cs EXCEPT !.strikes = Zeros, !.pressures = Zeros, !.shear_stresses = Zeros,
                    !.heat_flux = Zeros, !.heat_flux_load = Zeros]
    ELSE [cs EXCEPT !.strikes = Zeros]

\* ------------------------------------------------------- sliding windows
\* The while loop of update_window_queue.  Queue.get() on an empty queue
\* never returns: `blocked' records that the call does not come back.
RECURSIVE EvictLoop(_, _, _, _)
EvictLoop(window_queue, cur_window, get_counter, window_size) ==
    IF cur_window > window_size
    THEN IF window_queue = <<>>
         THEN [window_queue |-> window_queue, cur_window |-> cur_window,
               get_counter |-> get_counter, blocked |-> TRUE]
         ELSE EvictLoop(Tail(window_queue), cur_window - Head(window_queue),
                        get_counter + 1, window_size)
    ELSE [window_queue |-> window_queue, cur_window |-> cur_window,
          get_counter |-> get_counter, blocked |-> FALSE]

\* Variant: evicts as soon as the window is full (>= in place of >).
RECURSIVE EvictLoopAtFull(_, _, _, _)
EvictLoopAtFull(window_queue, cur_window, get_counter, window_size) ==
    IF cur_window >= window_size /\ window_queue # <<>>
    THEN EvictLoopAtFull(Tail(window_queue), cur_window - Head(window_queue),
                         get_counter + 1, window_size)
    ELSE [window_queue |-> window_queue, cur_window |-> cur_window,
          get_counter |-> get_counter, blocked |-> FALSE]
update_window_queue_at_full(window_queue, cur_window, firing_time, window_size) ==
    EvictLoopAtFull(Append(window_queue, firing_time), cur_window + firing_time, 0, window_size)

\* Variant: `if' in place of `while', at most one duration is evicted.
update_window_queue_once(window_queue, cur_window, firing_time, window_size) ==
    IF cur_window + firing_time > window_size
    THEN [window_queue |-> Tail(Append(window_queue, firing_time)),
          cur_window |-> cur_window + firing_time - Head(Append(window_queue, firing_time)),
          get_counter |-> 1, blocked |-> FALSE]
    ELSE [window_queue |-> Append(window_queue, firing_time),
          cur_window |-> cur_window + firing_time, get_counter |-> 0, blocked |-> FALSE]

\* Variant: the duration just put is never taken off again.
RECURSIVE EvictLoopKeepLast(_, _, _, _)
EvictLoopKeepLast(window_queue, cur_window, get_counter, window_size) ==
    IF cur_window > window_size /\ Len(window_queue) > 1
    THEN EvictLoopKeepLast(Tail(window_queue), cur_window - Head(window_queue),
                           get_counter + 1, window_size)
    ELSE [window_queue |-> window_queue, cur_window |-> cur_window,
          get_counter |-> get_counter, blocked |-> FALSE]
update_window_queue_keep_last(window_queue, cur_window, firing_time, window_size) ==
    EvictLoopKeepLast(Append(window_queue, firing_time), cur_window + firing_time, 0, window_size)

\* Variant: the new duration is added to the sum but not put on the queue.
update_window_queue_no_put(window_queue, cur_window, firing_time, window_size) ==
    EvictLoop(window_queue, cur_window + firing_time, 0, window_size)

update_window_queue(window_queue, cur_window, firing_time, window_size) ==
    EvictLoop(Append(window_queue, firing_time), cur_window + firing_time, 0, window_size)

\* Variant: the entries are taken off the queue but the sum is left alone.
update_parameter_queue_keep_sum(param_queue, param_window_sum, get_counter) ==
    IF get_counter > Len(param_queue)
    THEN [param_queue |-> <<>>, param_window_sum |-> param_window_sum, blocked |-> TRUE]
    ELSE [param_queue |-> SubSeq(param_queue, get_counter + 1, Len(param_queue)),
          param_window_sum |-> param_window_sum, blocked |-> FALSE]

\* Variant: one entry too few is taken off (range(1, get_counter)).
update_parameter_queue_one_short(param_queue, param_window_sum, get_counter) ==
    LET n == IF get_counter > 0 THEN get_counter - 1 ELSE 0
    IN  IF n > Len(param_queue)
        THEN [param_queue |-> <<>>, param_window_sum |-> param_window_sum, blocked |-> TRUE]
        ELSE [param_queue |-> SubSeq(param_queue, n + 1, Len(param_queue)),
              param_window_sum |-> param_window_sum - SumSeq(SubSeq(param_queue, 1, n)),
              blocked |-> FALSE]

\* for i in range(get_counter): old_param = param_queue.get(); sum -= old_param
RECURSIVE update_parameter_queue(_, _, _)
update_parameter_queue(param_queue, param_window_sum, get_counter) ==
    IF get_counter <= 0
    THEN [param_queue |-> param_queue, param_window_sum |-> param_window_sum, blocked |-> FALSE]
    ELSE IF param_queue = <<>>
         THEN [param_queue |-> param_queue, param_window_sum |-> param_window_sum, blocked |-> TRUE]
         ELSE update_parameter_queue(Tail(param_queue), param_window_sum - Head(param_queue),
                                     get_counter - 1)

\* Variant: a face's value is put on its queue only when it is not zero.
PutParametersNonZero(w, cs) ==
    [w EXCEPT
        !.pressure_queues =
            [i \in Faces |-> IF cs.pressures[i] = 0 THEN @[i] ELSE Append(@[i], cs.pressures[i])],
        !.pressure_window_sums = [i \in Faces |-> @[i] + cs.pressures[i]],
        !.heat_flux_queues =
            [i \in Faces |-> IF cs.heat_flux_load[i] = 0 THEN @[i]
                             ELSE Append(@[i], cs.heat_flux_load[i])],
        !.heat_flux_window_sums = [i \in Faces |-> @[i] + cs.heat_flux_load[i]]]

\* First loop of the constraint block: every face's pressure and heat-flux
\* load of this firing is put on its queue and added to its window sum.
PutParameters(w, cs) ==
    [w EXCEPT
        !.pressure_queues = [i \in Faces |-> Append(@[i], cs.pressures[i])],
        !.pressure_window_sums = [i \in Faces |-> @[i] + cs.pressures[i]],
        !.heat_flux_queues = [i \in Faces |-> Append(@[i], cs.heat_flux_load[i])],
        !.heat_flux_window_sums = [i \in Faces |-> @[i] + cs.heat_flux_load[i]]]

\* The two update_window_queue calls on the shared duration timelines.
UpdateTimelines(w, firing_time, cfg) ==
    LET p == update_window_queue(w.pressure_window_queue, w.pressure_cur_window,
                                 firing_time, cfg.normal_pressure_window_size)
        h == update_window_queue(w.heat_flux_window_queue, w.heat_flux_cur_window,
                                 firing_time, cfg.heat_flux_window_size)
    IN  IF p.blocked
        THEN [w EXCEPT !.blocked = TRUE]
        ELSE IF h.blocked
        THEN [w EXCEPT !.pressure_window_queue = p.window_queue,
                       !.pressure_cur_window = p.cur_window,
                       !.pressure_get_counter = p.get_counter,
                       !.blocked = TRUE]
        ELSE [w EXCEPT !.pressure_window_queue = p.window_queue,
                       !.pressure_cur_window = p.cur_window,
                       !.pressure_get_counter = p.get_counter,
                       !.heat_flux_window_queue = h.window_queue,
                       !.heat_flux_cur_window = h.cur_window,
                       !.heat_flux_get_counter = h.get_counter]

\* if not pressure_queues[queue_index].empty(): update_parameter_queue(...)
EvictPressure(w, queue_index) ==
    IF w.pressure_queues[queue_index] = <<>> THEN w
    ELSE LET r == update_parameter_queue(w.pressure_queues[queue_index],
                                         w.pressure_window_sums[queue_index],
                                         w.pressure_get_counter)
         IN  IF r.blocked THEN [w EXCEPT !.blocked = TRUE]
             ELSE [w EXCEPT !.pressure_queues[queue_index] = r.param_queue,
                            !.pressure_window_sums[queue_index] = r.param_window_sum]

\* if not heat_flux_queues[queue_index].empty() and
\*    heat_flux_window_sums[queue_index] != 0: update_parameter_queue(...)
EvictHeatFlux(w, queue_index) ==
    IF w.heat_flux_queues[queue_index] = <<>> \/ w.heat_flux_window_sums[queue_index] = 0
    THEN w
    ELSE LET r == update_parameter_queue(w.heat_flux_queues[queue_index],
                                         w.heat_flux_window_sums[queue_index],
                                         w.heat_flux_get_counter)
         IN  IF r.blocked THEN [w EXCEPT !.blocked = TRUE]
             ELSE [w EXCEPT !.heat_flux_queues[queue_index] = r.param_queue,
                            !.heat_flux_window_sums[queue_index] = r.param_window_sum]

\* -------------------------------------------------- constraint evaluation
\* Variant: a value equal to the constraint counts as exceeding it.
ExceedsOrEqual(value, constraint) == value >= constraint
\* value > constraint, strictly.
Exceeds(value, constraint) == value > constraint

\* Variant: the latch is set but not tested, every violation is written.
CheckConstraintNoLatch(w, kind, cell, value, constraint) ==
    IF value > constraint
    THEN [w EXCEPT
            !.constraint_file = Append(@, [line |-> "failed", kind |-> kind,
                                           cell |-> cell, value |-> value]),
            !.failed_constraints = 1]
    ELSE w

\* One  `if value > constraint and not failed_constraints:'  block: the two
\* lines written to the report are one record; the flag is latched.
CheckConstraint(w, kind, cell, value, constraint) ==
    IF Exceeds(value, constraint) /\ w.failed_constraints = 0
    THEN [w EXCEPT
            !.constraint_file = Append(@, [line |-> "failed", kind |-> kind,
                                           cell |-> cell, value |-> value]),
            !.failed_constraints = 1]
    ELSE w

\* The cell number the instantaneous checks print: they format `i', the
\* variable of the loop  `for i in range(len(pressures))'  that has already
\* ended, not queue_index.
InstantaneousCell(queue_index) == NumFaces - 1
\* The window checks print queue_index.
WindowCell(queue_index) == queue_index

\* Variant: the two window checks of a face come before its three
\* instantaneous checks.
CheckFaceWindowsFirst(w, cs, queue_index, cfg) ==
    LET c1 == CheckConstraint(w, "Pressure window", WindowCell(queue_index),
                              w.pressure_window_sums[queue_index], cfg.normal_pressure_load)
        c2 == CheckConstraint(c1, "Heat flux window", WindowCell(queue_index),
                              c1.heat_flux_window_sums[queue_index], cfg.heat_flux_load)
        c3 == CheckConstraint(c2, "Pressure", InstantaneousCell(queue_index),
                              cs.pressures[queue_index], cfg.normal_pressure)
        c4 == CheckConstraint(c3, "Shear", InstantaneousCell(queue_index),
                              cs.shear_stresses[queue_index], cfg.shear_pressure)
    IN  CheckConstraint(c4, "Heat flux", InstantaneousCell(queue_index),
                        cs.heat_flux[queue_index], cfg.heat_flux)

\* The five checks of one face, in source order.
CheckFace(w, cs, queue_index, cfg) ==
    LET c1 == CheckConstraint(w, "Pressure", InstantaneousCell(queue_index),
                              cs.pressures[queue_index], cfg.normal_pressure)
        c2 == CheckConstraint(c1, "Shear", InstantaneousCell(queue_index),
                              cs.shear_stresses[queue_index], cfg.shear_pressure)
        c3 == CheckConstraint(c2, "Heat flux", InstantaneousCell(queue_index),
                              cs.heat_flux[queue_index], cfg.heat_flux)
        c4 == CheckConstraint(c3, "Pressure window", WindowCell(queue_index),
                              c3.pressure_window_sums[queue_index], cfg.normal_pressure_load)
    IN  CheckConstraint(c4, "Heat flux window", WindowCell(queue_index),
                        c4.heat_flux_window_sums[queue_index], cfg.heat_flux_load)

\* for queue_index in range(len(pressure_queues)): evict, then check.
RECURSIVE QueueLoop(_, _, _, _)
QueueLoop(w, cs, queue_index, cfg) ==
    IF queue_index >= NumFaces \/ w.blocked THEN w
    ELSE LET e1 == EvictPressure(w, queue_index)
             e2 == IF e1.blocked THEN e1 ELSE EvictHeatFlux(e1, queue_index)
         IN  IF e2.blocked THEN e2
             ELSE QueueLoop(CheckFace(e2, cs, queue_index, cfg), cs, queue_index + 1, cfg)

\* The whole constraint block of one firing.
ConstraintBlock(w, cs, firing_time, cfg) ==
    LET timed == UpdateTimelines(PutParameters(w, cs), firing_time, cfg)
    IN  IF timed.blocked THEN timed ELSE QueueLoop(timed, cs, 0, cfg)

\* ------------------------------------------------------------ the replay
VARIABLES
    config,     \* self.config: plume, pm and tv sections, read once
    pc,         \* position in jfh_plume_strikes
    firing,     \* index of the loop over self.jfh.JFH
    JFH,        \* the firing records read so far, in order
    cells,      \* the per-face arrays of the method
    track,      \* window queues and sums, the latch and the report file
    saved,      \* cell data handed to convert_stl_to_vtk_strikes, in order
    detected    \* history: every comparison that came out true, in order

vars == <<config, pc, firing, JFH, cells, track, saved, detected>>

\* Source names of the state, for the properties below.
strikes == cells.strikes
cum_strikes == cells.cum_strikes
pressures == cells.pressures
shear_stresses == cells.shear_stresses
heat_flux == cells.heat_flux
heat_flux_load == cells.heat_flux_load
max_pressures == cells.max_pressures
max_shears == cells.max_shears
cum_heat_flux_load == cells.cum_heat_flux_load
pressure_queues == track.pressure_queues
pressure_window_sums == track.pressure_window_sums
pressure_window_queue == track.pressure_window_queue
pressure_cur_window == track.pressure_cur_window
heat_flux_queues == track.heat_flux_queues
heat_flux_window_sums == track.heat_flux_window_sums
heat_flux_window_queue == track.heat_flux_window_queue
heat_flux_cur_window == track.heat_flux_cur_window
failed_constraints == track.failed_constraints
constraint_file == track.constraint_file

\* Variant: the check_constraints flag alone decides, kinetics or not.
CheckingByFlagAlone(cfg) == cfg.check_constraints # 0

\* if config['pm']['kinetics'] != 'None' and checking_constraints
Checking(cfg) == cfg.kinetics # "None" /\ cfg.check_constraints # 0

\* The arrays created before the loop.
InitCells(cfg) ==
    IF cfg.kinetics # "None"
    THEN [strikes |-> Unbound, cum_strikes |-> Zeros,
          pressures |-> Unbound, shear_stresses |-> Unbound,
          heat_flux |-> Unbound, heat_flux_load |-> Unbound,
          max_pressures |-> Zeros, max_shears |-> Zeros, cum_heat_flux_load |-> Zeros]
    ELSE [strikes |-> Unbound, cum_strikes |-> Zeros,
          pressures |-> Unbound, shear_stresses |-> Unbound,
          heat_flux |-> Unbound, heat_flux_load |-> Unbound,
          max_pressures |-> Unbound, max_shears |-> Unbound, cum_heat_flux_load |-> Unbound]

\* The window state and the report, created only when constraints are checked.
InitTrack(cfg) ==
    IF Checking(cfg)
    THEN [pressure_window_sums |-> Zeros,
          pressure_queues |-> [i \in Faces |-> <<>>],
          pressure_window_queue |-> <<>>, pressure_cur_window |-> 0,
          pressure_get_counter |-> 0,
          heat_flux_window_sums |-> Zeros,
          heat_flux_queues |-> [i \in Faces |-> <<>>],
          heat_flux_window_queue |-> <<>>, heat_flux_cur_window |-> 0,
          heat_flux_get_counter |-> 0,
          failed_constraints |-> 0, constraint_file |-> <<>>,
          report |-> "open", blocked |-> FALSE]
    ELSE [pressure_window_sums |-> Unbound, pressure_queues |-> Unbound,
          pressure_window_queue |-> Unbound, pressure_cur_window |-> 0,
          pressure_get_counter |-> 0,
          heat_flux_window_sums |-> Unbound, heat_flux_queues |-> Unbound,
          heat_flux_window_queue |-> Unbound, heat_flux_cur_window |-> 0,
          heat_flux_get_counter |-> 0,
          failed_constraints |-> 0, constraint_file |-> <<>>,
          report |-> "none", blocked |-> FALSE]

InitWith(cfgs) ==
    /\ config \in cfgs
    /\ pc = "loop"
    /\ firing = 0
    /\ JFH = <<>>
    /\ cells = InitCells(config)
    /\ track = InitTrack(config)
    /\ saved = <<>>
    /\ detected = <<>>

\* The keys of a firing record that the loop body reads.
RecordKeys == {"t", "thrusters", "xyz", "dcm"}

\* Variant: a record lacking a key is passed over and the loop goes on.
ReadFiringSkipping(rec) ==
    /\ pc = "loop"
    /\ firing < MaxFirings
    /\ JFH' = Append(JFH, rec)
    /\ IF RecordKeys \subseteq DOMAIN rec
       THEN cells' = ResetFiring(cells, config) /\ pc' = "strikes" /\ firing' = firing
       ELSE cells' = cells /\ pc' = "loop" /\ firing' = firing + 1
    /\ UNCHANGED <<config, track, saved, detected>>

\* Top of the loop body: strikes is reset, the duration is read, the other
\* per-firing arrays are reset, and the thruster list, position and
\* orientation are read.  Reading a key the record lacks raises KeyError,
\* which nothing catches: the method is left at that line.
ReadFiring(rec) ==
    /\ pc = "loop"
    /\ firing < MaxFirings
    /\ JFH' = Append(JFH, rec)
    /\ IF RecordKeys \subseteq DOMAIN rec
       THEN /\ cells' = ResetFiring(cells, config)
            /\ pc' = "strikes"
       ELSE /\ cells' = IF "t" \in DOMAIN rec THEN ResetFiring(cells, config)
                        ELSE [cells EXCEPT !.strikes = Zeros]
            /\ pc' = "raised"
    /\ UNCHANGED <<config, firing, track, saved, detected>>

\* The loop over the active thrusters and, inside it, over the faces.
CalcStrikes ==
    /\ pc = "strikes"
    /\ cells' = ThrusterLoop(cells, JFH[firing + 1].thrusters, JFH[firing + 1], config)
    /\ pc' = "constraints"
    /\ UNCHANGED <<config, firing, JFH, track, saved, detected>>

\* Every comparison of the constraint block that is true for this firing,
\* face by face in source order, whether or not it was reported.
DetectedIn(w, cs, cfg, n) ==
    LET OfFace(i) ==
            SelectSeq(<<[firing |-> n, cell |-> i, kind |-> "Pressure", value |-> cs.pressures[i],
                         hit |-> cs.pressures[i] > cfg.normal_pressure],
                        [firing |-> n, cell |-> i, kind |-> "Shear", value |-> cs.shear_stresses[i],
                         hit |-> cs.shear_stresses[i] > cfg.shear_pressure],
                        [firing |-> n, cell |-> i, kind |-> "Heat flux", value |-> cs.heat_flux[i],
                         hit |-> cs.heat_flux[i] > cfg.heat_flux],
                        [firing |-> n, cell |-> i, kind |-> "Pressure window",
                         value |-> w.pressure_window_sums[i],
                         hit |-> w.pressure_window_sums[i] > cfg.normal_pressure_load],
                        [firing |-> n, cell |-> i, kind |-> "Heat flux window",
                         value |-> w.heat_flux_window_sums[i],
                         hit |-> w.heat_flux_window_sums[i] > cfg.heat_flux_load]>>,
                      LAMBDA r : r.hit)
        Upto[i \in 0..NumFaces] == IF i = 0 THEN <<>> ELSE Upto[i - 1] \o OfFace(i - 1)
    IN  Upto[NumFaces]

\* The constraint block: queue puts, timeline updates, evictions, checks.
CheckConstraints ==
    /\ pc = "constraints"
    /\ IF Checking(config)
       THEN LET w == ConstraintBlock(track, cells, JFH[firing + 1].t, config)
            IN  /\ track' = w
                /\ pc' = IF w.blocked THEN "blocked" ELSE "save"
                /\ detected' = IF w.blocked THEN detected
                               ELSE detected \o DetectedIn(w, cells, config, firing)
       ELSE /\ pc' = "save"
            /\ UNCHANGED <<track, detected>>
    /\ UNCHANGED <<config, firing, JFH, cells, saved>>

\* cellData of the firing, as handed to convert_stl_to_vtk_strikes.
CellData(cs, cfg) ==
    IF cfg.kinetics # "None"
    THEN [strikes |-> cs.strikes, cum_strikes |-> cs.cum_strikes,
          pressures |-> cs.pressures, max_pressures |-> cs.max_pressures,
          shear_stress |-> cs.shear_stresses, max_shears |-> cs.max_shears,
          heat_flux_rate |-> cs.heat_flux, heat_flux_load |-> cs.heat_flux_load,
          cum_heat_flux_load |-> cs.cum_heat_flux_load]
    ELSE [strikes |-> cs.strikes, cum_strikes |-> cs.cum_strikes]

\* Variant: a firing that struck nothing leaves no mesh artifact.
SaveFiringIfStruck ==
    /\ pc = "save"
    /\ saved' = IF \E i \in Faces : cells.strikes[i] = 1
                THEN Append(saved, [name |-> firing, cellData |-> CellData(cells, config)])
                ELSE saved
    /\ firing' = firing + 1
    /\ pc' = "loop"
    /\ UNCHANGED <<config, JFH, cells, track, detected>>

\* Variant: the artifacts share the cumulative arrays, so writing one
\* firing's artifact brings the earlier ones up to date with it.
SaveFiringShared ==
    /\ pc = "save"
    /\ saved' = Append([k \in 1..Len(saved) |->
                            [saved[k] EXCEPT !.cellData.cum_strikes = cells.cum_strikes]],
                       [name |-> firing, cellData |-> CellData(cells, config)])
    /\ firing' = firing + 1
    /\ pc' = "loop"
    /\ UNCHANGED <<config, JFH, cells, track, detected>>

\* The firing's mesh artifact is written; the loop advances.
SaveFiring ==
    /\ pc = "save"
    /\ saved' = Append(saved, [name |-> firing, cellData |-> CellData(cells, config)])
    /\ firing' = firing + 1
    /\ pc' = "loop"
    /\ UNCHANGED <<config, JFH, cells, track, detected>>

\* After the last firing: the closing line of the report.
CloseReport(w, cfg) ==
    IF Checking(cfg)
    THEN [w EXCEPT !.constraint_file =
                      IF w.failed_constraints = 0
                      THEN Append(@, [line |-> "all met"]) ELSE @,
                   !.report = "closed"]
    ELSE w

Finish ==
    /\ pc = "loop"
    /\ track' = CloseReport(track, config)
    /\ pc' = "done"
    /\ UNCHANGED <<config, firing, JFH, cells, saved, detected>>

\* --------------------------------------------------- inputs of the checks
\* plume, pm and tv settings shared by the configurations below.
BaseConfig ==
    [kinetics |-> "Simplified", check_constraints |-> 1,
     radius |-> 5, wedge_cos2_num |-> 1, wedge_cos2_den |-> 2,
     surface_temp |-> 300, sigma |-> 1,
     normal_pressure |-> 100, shear_pressure |-> 100, heat_flux |-> 100,
     normal_pressure_load |-> 1000, heat_flux_load |-> 1000,
     normal_pressure_window_size |-> 15, heat_flux_window_size |-> 15]

\* Window thresholds within reach, instantaneous ones out of reach.
WindowConfig ==
    [BaseConfig EXCEPT !.normal_pressure_load = 5, !.heat_flux_load = 20,
                       !.normal_pressure_window_size = 15, !.heat_flux_window_size = 20]
\* Pressure and shear thresholds within reach.
PressureShearConfig ==
    [BaseConfig EXCEPT !.normal_pressure = 5, !.shear_pressure = 2,
                       !.normal_pressure_window_size = 20, !.heat_flux_window_size = 20]
\* Heat-flux rate threshold within reach, and the pressure load one behind it.
HeatFluxConfig ==
    [BaseConfig EXCEPT !.normal_pressure = 10, !.shear_pressure = 4, !.heat_flux = 1,
                       !.normal_pressure_load = 10,
                       !.normal_pressure_window_size = 20, !.heat_flux_window_size = 10]

Configs == {WindowConfig, PressureShearConfig, HeatFluxConfig}

\* JFH[firing]['t'], ['thrusters'], ['xyz'] and ['dcm'] of the records read.
Durations == {10, 20}
ThrusterLists == {<<>>, <<1>>, <<2>>, <<1, 3>>, <<1, 2>>}
FiringRecords ==
    [t : Durations, xyz : {<<0, 0, 0>>}, dcm : {Identity}, thrusters : ThrusterLists]

Init == InitWith(Configs)

Next ==
    \/ \E rec \in FiringRecords : ReadFiring(rec)
    \/ CalcStrikes
    \/ CheckConstraints
    \/ SaveFiring
    \/ Finish

Spec == Init /\ [][Next]_vars

\* ============================================================ properties
\* A brute-force view of the replay, recomputed from the records read so far.

\* The per-face values one firing record produces on its own.
FiringCells(rec) ==
    ThrusterLoop(ResetFiring(InitCells(config), config), rec.thrusters, rec, config)

Durs == [k \in 1..Len(JFH) |-> JFH[k].t]
\* Total duration of the last m firings read.
LastDuration(m) == SumSeq(SubSeq(Durs, Len(JFH) - m + 1, Len(JFH)))
\* Length of the longest suffix of firings whose total duration fits in size.
Resident(size) ==
    CHOOSE m \in 0..Len(JFH) :
        /\ LastDuration(m) <= size
        /\ \A m2 \in 0..Len(JFH) : LastDuration(m2) <= size => m2 <= m
BrutePressureWindow(i) ==
    LET m == Resident(config.normal_pressure_window_size)
    IN  SumSeq([k \in 1..m |-> FiringCells(JFH[Len(JFH) - m + k]).pressures[i]])
BruteHeatFluxWindow(i) ==
    LET m == Resident(config.heat_flux_window_size)
    IN  SumSeq([k \in 1..m |-> FiringCells(JFH[Len(JFH) - m + k]).heat_flux_load[i]])

\* The replay is between two firings, or has just finished the constraint
\* block of one.
AtBoundary == pc \in {"loop", "save", "done"}
AfterWindowUpdate == pc = "save" /\ Checking(config)

\* C1: at every firing boundary, every face's pressure queue is as long as
\* the pressure duration queue and every face's heat-flux queue is as long
\* as the heat-flux duration queue.
C1_QueuesInStep ==
    (AtBoundary /\ Checking(config)) =>
        \A i \in Faces :
            /\ Len(pressure_queues[i]) = Len(pressure_window_queue)
            /\ Len(heat_flux_queues[i]) = Len(heat_flux_window_queue)

\* C2: at every firing boundary, each face's window sum is the sum of the
\* values resident in that face's queue, for pressure and heat-flux load.
C2_SumsMatchQueues ==
    (AtBoundary /\ Checking(config)) =>
        \A i \in Faces :
            /\ pressure_window_sums[i] = SumSeq(pressure_queues[i])
            /\ heat_flux_window_sums[i] = SumSeq(heat_flux_queues[i])

\* An eviction took place in this firing and left a face with entries and
\* non-zero sums in both of its queues.
C2_Witness ==
    /\ AfterWindowUpdate
    /\ track.pressure_get_counter > 0
    /\ track.heat_flux_get_counter > 0
    /\ \E i \in Faces :
        /\ Len(pressure_queues[i]) >= 2 /\ pressure_window_sums[i] > 0
        /\ Len(heat_flux_queues[i]) >= 2 /\ heat_flux_window_sums[i] > 0

\* C3: after the window update of every firing, each face's heat-flux-load
\* window sum is the sum of its per-firing loads over the firings resident
\* in the heat-flux duration timeline.
C3_HeatFluxWindowIsSuffixSum ==
    AfterWindowUpdate =>
        \A i \in Faces : heat_flux_window_sums[i] = BruteHeatFluxWindow(i)

\* C4: after the window update of every firing, each face's pressure window
\* sum is the sum of its per-firing pressures over the longest suffix of
\* firings whose total duration fits in the pressure window.
C4_PressureWindowIsSuffixSum ==
    AfterWindowUpdate =>
        \A i \in Faces : pressure_window_sums[i] = BrutePressureWindow(i)

\* Some firings have left the pressure window, at least two are resident,
\* and a face carries a non-zero pressure sum.
C4_Witness ==
    /\ AfterWindowUpdate
    /\ Resident(config.normal_pressure_window_size) >= 2
    /\ Resident(config.normal_pressure_window_size) < Len(JFH)
    /\ \E i \in Faces : pressure_window_sums[i] > 0

\* Scenario B for face i: the pressure window is 15 s, every firing read so
\* far lasts 10 s, and the face receives 5 units in each of the first two.
ScenarioB(i) ==
    /\ Checking(config)
    /\ config.normal_pressure_window_size = 15
    /\ Len(JFH) >= 2
    /\ \A k \in 1..Len(JFH) : JFH[k].t = 10
    /\ FiringCells(JFH[1]).pressures[i] = 5
    /\ FiringCells(JFH[2]).pressures[i] = 5

\* C5 as stated: in scenario B the window sum is 10 after firing 2, and
\* after firing 3 it is the firing-2 plus firing-3 contributions.
C5_ScenarioB_AsStated ==
    \A i \in Faces :
        (ScenarioB(i) /\ pc = "save") =>
            /\ firing = 1 => pressure_window_sums[i] = 10
            /\ firing = 2 => pressure_window_sums[i] =
                   FiringCells(JFH[2]).pressures[i] + FiringCells(JFH[3]).pressures[i]

\* C5 amended: in scenario B the window sum is 5 after firing 2 (10 + 10 s
\* exceed the 15 s window, so firing 1 has already left it), and after
\* firing 3 it is the firing-3 contribution alone.
C5_ScenarioB ==
    \A i \in Faces :
        (ScenarioB(i) /\ pc = "save") =>
            /\ firing = 1 => pressure_window_sums[i] = 5
            /\ firing = 2 => pressure_window_sums[i] = FiringCells(JFH[3]).pressures[i]

\* Scenario B has run through its third firing, which also loads the face.
C5_Witness ==
    /\ pc = "save" /\ firing = 2
    /\ ScenarioB(0)
    /\ FiringCells(JFH[3]).pressures[0] > 0

\* C6: after every update of the duration timelines, each running duration
\* sum is at most its window size and equals the sum of the durations left
\* in its queue.
C6_DurationSumBounded ==
    (Checking(config) /\ ~track.blocked) =>
        /\ pressure_cur_window <= config.normal_pressure_window_size
        /\ pressure_cur_window = SumSeq(pressure_window_queue)
        /\ heat_flux_cur_window <= config.heat_flux_window_size
        /\ heat_flux_cur_window = SumSeq(heat_flux_window_queue)

\* Both timelines evicted in this firing, the pressure one more than one
\* duration, and both still hold a duration.
C6_Witness ==
    /\ AfterWindowUpdate
    /\ track.pressure_get_counter >= 2
    /\ track.heat_flux_get_counter >= 1
    /\ pressure_window_queue # <<>>
    /\ heat_flux_window_queue # <<>>

\* The violation records of a report.
Failures(file) == SelectSeq(file, LAMBDA r : r.line = "failed")

\* C7: the report never holds more than one violation record, the latch is
\* set exactly when that record is written and never reset, and once it is
\* set nothing more is written.
C7_AtMostOneRecord ==
    /\ [](Len(Failures(constraint_file)) <= 1
          /\ (failed_constraints = 1 <=> Len(Failures(constraint_file)) = 1))
    /\ [][failed_constraints = 1 =>
            (failed_constraints' = 1 /\ constraint_file' = constraint_file)]_vars

\* Violations were detected in two different firings and on two different
\* faces, and the report holds one record.
C7_Witness ==
    /\ Len(Failures(constraint_file)) = 1
    /\ \E a, b \in 1..Len(detected) :
           /\ detected[a].firing # detected[b].firing
           /\ detected[a].cell # detected[b].cell

AllMet(file) == \E k \in 1..Len(file) : file[k].line = "all met"

\* C8: when a run with constraint checking completes, the report has the
\* "all met" line iff no checked value ever strictly exceeded its
\* threshold; otherwise it has exactly one violation record and no "all
\* met" line.
C8_ReportVerdict ==
    (pc = "done" /\ Checking(config)) =>
        /\ AllMet(constraint_file) <=> detected = <<>>
        /\ detected # <<>> =>
              (Len(Failures(constraint_file)) = 1 /\ ~AllMet(constraint_file))
        /\ detected = <<>> => Failures(constraint_file) = <<>>

\* A completed run reported "all met" although a face's pressure and shear
\* were exactly equal to their thresholds in some firing.
C8_Witness ==
    /\ pc = "done" /\ Checking(config)
    /\ AllMet(constraint_file)
    /\ \E k \in 1..Len(saved) : \E i \in Faces :
           /\ saved[k].cellData.pressures[i] = config.normal_pressure
           /\ saved[k].cellData.shear_stress[i] = config.shear_pressure

\* C9 as stated: the cell index of the violation record is the face whose
\* value exceeded its threshold, for every kind of violation.
C9_CellIsViolatingFace ==
    \A k \in 1..Len(constraint_file) :
        constraint_file[k].line = "failed" =>
            /\ detected # <<>>
            /\ constraint_file[k].kind = detected[1].kind
            /\ constraint_file[k].cell = detected[1].cell

\* C10 as stated: every violation record carries the index of the firing
\* in which it was detected, with the kind, the cell and the value.
C10_RecordHasFiring ==
    \A k \in 1..Len(constraint_file) :
        constraint_file[k].line = "failed" =>
            /\ {"kind", "cell", "value", "firing"} \subseteq DOMAIN constraint_file[k]
            /\ detected # <<>>
            /\ constraint_file[k].firing = detected[1].firing

\* ================================================= strike geometry study
\* plume settings with wedge_theta = pi/4.  Line 625 measures the angle from
\* 3.14, so the comparison of line 640 cuts at cos(3.14 - pi/4) =
\* -0.70597970..., whose square is 0.49840734...; none of the directions
\* below has a squared cosine between 0.4984 and that value.
GeomConfig == [BaseConfig EXCEPT !.wedge_cos2_num = 4984, !.wedge_cos2_den = 10000]

\* Vehicle positions: on the axis of face 0; at the plume radius from it; at
\* pi/4 off the axis; beside face 1; with thruster T1's exit on the centroid
\* of face 0.
GeomPositions == {<<0, 0, 0>>, <<-3, 0, 0>>, <<0, 2, 0>>, <<-3, 3, 0>>, <<2, 0, 0>>}
GeomRecords ==
    [t : {10}, xyz : GeomPositions, dcm : {Identity, RotZ},
     thrusters : {<<1>>, <<3>>, <<1, 2>>}]

InitGeom == InitWith({GeomConfig})

NextGeom ==
    \/ \E rec \in GeomRecords : firing < MaxFirings - 1 /\ ReadFiring(rec)
    \/ CalcStrikes
    \/ CheckConstraints
    \/ SaveFiring
    \/ Finish

SpecGeom == InitGeom /\ [][NextGeom]_vars

\* The geometry of a thruster and a face, as the study states it.
DistanceOf(i, thruster_id, rec) ==
    VecSub(ThrusterPos(thruster_id, rec), Centroid(TargetVectors[i + 1]))
\* The angle pi - arccos(u_d . u_a) between the plume axis and the line from
\* the thruster to the face is below pi/4:  u_d . u_a < -cos(pi/4).
AngleBelowWedge(distance, plume_normal) ==
    LET d_a == Dot(distance, plume_normal)
    IN  d_a < 0 /\ 2 * d_a * d_a > Dot(distance, distance) * Dot(plume_normal, plume_normal)
AngleAtWedge(distance, plume_normal) ==
    LET d_a == Dot(distance, plume_normal)
    IN  d_a < 0 /\ 2 * d_a * d_a = Dot(distance, distance) * Dot(plume_normal, plume_normal)
GeometricStrike(i, thruster_id, rec) ==
    LET distance == DistanceOf(i, thruster_id, rec)
        plume_normal == PlumeNormal(thruster_id, rec)
    IN  /\ Dot(distance, distance) < config.radius * config.radius
        /\ AngleBelowWedge(distance, plume_normal)
        /\ Dot(TargetNormals[i + 1], plume_normal) < 0
\* The positions in the thruster list of the firing being processed whose
\* thruster strikes face i by the geometric rule.
GeometricStrikers(i) ==
    LET rec == JFH[firing + 1]
    IN  {k \in 1..Len(rec.thrusters) : GeometricStrike(i, link(rec.thrusters[k])[1], rec)}
\* cum_strikes as the previous firing left it.
CumStrikesBefore(i) == IF firing = 0 THEN 0 ELSE saved[firing].cellData.cum_strikes[i]

\* C11 as stated: for every firing, active thruster and face, the face is
\* counted as struck by the thruster exactly when the distance is below the
\* plume radius, the angle from the plume centerline is below the wedge
\* half-angle and the face normal points against the plume axis, all three
\* strictly; a face exactly at the radius, at the half-angle or edge-on is
\* not struck.
C11_StrikeIffGeometry ==
    pc = "constraints" =>
        \A i \in Faces :
            /\ strikes[i] = IF GeometricStrikers(i) # {} THEN 1 ELSE 0
            /\ cum_strikes[i] = CumStrikesBefore(i) + Cardinality(GeometricStrikers(i))

\* ==================================================== cumulative fields
\* C12: in every step of the replay, and so from one firing to the next,
\* no face's cum_strikes, max_pressures or max_shears decreases, whatever
\* the kinetics model returned for the firing.
C12_CumulativeNeverDecrease ==
    [][\A i \in Faces :
          /\ cum_strikes'[i] >= cum_strikes[i]
          /\ max_pressures'[i] >= max_pressures[i]
          /\ max_shears'[i] >= max_shears[i]]_vars

\* A face is struck in a later firing with less pressure and less shear
\* than its running maxima.
C12_Witness ==
    /\ pc = "constraints" /\ firing >= 1
    /\ \E i \in Faces :
           /\ strikes[i] = 1
           /\ pressures[i] < max_pressures[i]
           /\ shear_stresses[i] < max_shears[i]
           /\ cum_strikes[i] > saved[firing].cellData.cum_strikes[i]

\* Firing histories whose 't' is of either sign: float(JFH[firing]['t']) is
\* taken as it is read.
SignedRecords == [t : {-10, 10}, xyz : {<<0, 0, 0>>}, dcm : {Identity},
                  thrusters : {<<>>, <<1>>, <<1, 2>>}]

InitSigned == InitWith({WindowConfig})

NextSigned ==
    \/ \E rec \in SignedRecords : ReadFiring(rec)
    \/ CalcStrikes
    \/ CheckConstraints
    \/ SaveFiring
    \/ Finish

SpecSigned == InitSigned /\ [][NextSigned]_vars

\* C13 as stated: every face's cum_heat_flux_load, as persisted firing after
\* firing, never decreases from one firing to the next, for every heat-flux
\* value of the kinetics model and every duration read from the record.
C13_HeatLoadNeverDecreases ==
    \A k \in 1..Len(saved) : \A i \in Faces :
        saved[k].cellData.cum_heat_flux_load[i] >=
            IF k = 1 THEN 0 ELSE saved[k - 1].cellData.cum_heat_flux_load[i]

\* ====================================================== kinetics disabled
\* pm.kinetics = "None", with tv.check_constraints off and on and with
\* thresholds out of reach and at zero.
NoKineticsConfigs ==
    {[BaseConfig EXCEPT !.kinetics = "None", !.check_constraints = c,
                        !.normal_pressure = th, !.shear_pressure = th, !.heat_flux = th,
                        !.normal_pressure_load = th, !.heat_flux_load = th] :
        c \in {0, 1}, th \in {0, 100}}
NoKineticsRecords ==
    [t : {10}, xyz : {<<0, 0, 0>>}, dcm : {Identity},
     thrusters : {<<>>, <<1>>, <<1, 2>>, <<1, 3>>}]

InitNoKinetics == InitWith(NoKineticsConfigs)

NextNoKinetics ==
    \/ \E rec \in NoKineticsRecords : ReadFiring(rec)
    \/ CalcStrikes
    \/ CheckConstraints
    \/ SaveFiring
    \/ Finish

SpecNoKinetics == InitNoKinetics /\ [][NextNoKinetics]_vars

\* C14: with pm.kinetics = "None", every persisted cell data has exactly the
\* fields strikes and cum_strikes; no pressure, shear or heat-flux array and
\* no window queue or window sum is ever bound; no comparison of the
\* constraint block is made and no impingement report exists, whatever
\* tv.check_constraints and the thresholds are.
C14_NoKineticsStrikesOnly ==
    config.kinetics = "None" =>
        /\ \A k \in 1..Len(saved) : DOMAIN saved[k].cellData = {"strikes", "cum_strikes"}
        /\ pressures = Unbound /\ shear_stresses = Unbound
        /\ heat_flux = Unbound /\ heat_flux_load = Unbound
        /\ max_pressures = Unbound /\ max_shears = Unbound /\ cum_heat_flux_load = Unbound
        /\ pressure_queues = Unbound /\ heat_flux_queues = Unbound
        /\ pressure_window_queue = Unbound /\ heat_flux_window_queue = Unbound
        /\ pressure_window_sums = Unbound /\ heat_flux_window_sums = Unbound
        /\ detected = <<>>
        /\ track.report = "none" /\ constraint_file = <<>>

\* A finished run without kinetics, with constraint checking requested and
\* every threshold at zero, in which a face was struck in two firings.
C14_Witness ==
    /\ pc = "done" /\ config.kinetics = "None"
    /\ config.check_constraints = 1 /\ config.normal_pressure = 0
    /\ \E i \in Faces : cum_strikes[i] >= 2 /\ strikes[i] = 1
    /\ Len(saved) >= 2

\* ==================================================== this-firing values
\* The firing being processed and, per position of its thruster list,
\* whether that thruster strikes face i and what the kinetics give for it.
CurrentRecord == JFH[firing + 1]
StrikesAt(i, k) == IsStrike(i, link(CurrentRecord.thrusters[k])[1], CurrentRecord, config)
PlumeAt(i, k) == PlumeOf(i, link(CurrentRecord.thrusters[k])[1], CurrentRecord, config)
Contributions(i, Value(_)) ==
    [k \in 1..Len(CurrentRecord.thrusters) |->
        IF StrikesAt(i, k) THEN Value(PlumeAt(i, k)) ELSE 0]
PressureOf(plume) == plume.pressure
ShearOf(plume) == Abs(plume.shear)
HeatFluxOf(plume) == plume.heat_flux

\* C15: once the strikes of a firing are calculated, strikes[i] is 1 if at
\* least one active thruster of this firing strikes face i and 0 otherwise,
\* and the pressure, shear and heat-flux rate of face i are the sums of the
\* kinetics outputs (absolute value for shear) over the active thrusters
\* of this firing that strike it, whatever the earlier firings were.
C15_ThisFiringOnly ==
    (pc \in {"constraints", "save"} /\ config.kinetics = "Simplified") =>
        \A i \in Faces :
            /\ strikes[i] =
                  IF \E k \in 1..Len(CurrentRecord.thrusters) : StrikesAt(i, k) THEN 1 ELSE 0
            /\ pressures[i] = SumSeq(Contributions(i, PressureOf))
            /\ shear_stresses[i] = SumSeq(Contributions(i, ShearOf))
            /\ heat_flux[i] = SumSeq(Contributions(i, HeatFluxOf))

\* A firing in which face 0 is struck by two thrusters after a firing in
\* which one struck it, and face 1 is not struck after a firing in which
\* it was.
C15_Witness ==
    /\ pc = "constraints" /\ firing >= 1
    /\ saved[firing].cellData.pressures[0] = 5 /\ pressures[0] = 10
    /\ saved[firing].cellData.pressures[1] > 0 /\ pressures[1] = 0 /\ strikes[1] = 0

\* ======================================================== running maxima
\* The largest number of a non-empty finite set.
MaxOf(S) == CHOOSE m \in S : \A x \in S : x <= m
\* The this-firing totals of face i persisted so far.
PressureTotals(i) == {saved[k].cellData.pressures[i] : k \in 1..Len(saved)}
ShearTotals(i) == {saved[k].cellData.shear_stress[i] : k \in 1..Len(saved)}

WellFormedRecords ==
    [t : {10}, xyz : {<<0, 0, 0>>}, dcm : {Identity}, thrusters : {<<>>, <<1>>, <<1, 2>>}]
MalformedRecords ==
    {[xyz |-> <<0, 0, 0>>, dcm |-> Identity, thrusters |-> <<1>>],
     [t |-> 10, dcm |-> Identity, thrusters |-> <<1>>],
     [t |-> 10, xyz |-> <<0, 0, 0>>, thrusters |-> <<1>>],
     [t |-> 10, xyz |-> <<0, 0, 0>>, dcm |-> Identity]}

InitMalformed == InitWith({PressureShearConfig})

NextMalformed ==
    \/ \E rec \in WellFormedRecords \cup MalformedRecords : ReadFiring(rec)
    \/ CalcStrikes
    \/ CheckConstraints
    \/ SaveFiring
    \/ Finish

SpecMalformed == InitMalformed /\ [][NextMalformed]_vars

Malformed(rec) == ~(RecordKeys \subseteq DOMAIN rec)

\* C17: a firing record lacking its duration, position, orientation or
\* thruster list makes the replay raise instead of skipping the record: it
\* is the last record read, the replay stays where it raised, the step that
\* reads it changes no cumulative counter, running maximum, window queue,
\* window sum or report, and no mesh artifact exists for it.
C17_MalformedRecordRaises ==
    /\ [](\A k \in 1..Len(JFH) :
             Malformed(JFH[k]) =>
                 /\ k = Len(JFH) /\ pc = "raised"
                 /\ firing = k - 1 /\ Len(saved) = k - 1)
    /\ [][/\ pc # "raised"
          /\ (JFH' # JFH /\ Malformed(JFH'[Len(JFH')])) =>
                 /\ cum_strikes' = cum_strikes
                 /\ max_pressures' = max_pressures /\ max_shears' = max_shears
                 /\ cum_heat_flux_load' = cum_heat_flux_load
                 /\ track' = track /\ saved' = saved /\ firing' = firing]_vars

\* The replay raised on a record after a firing that struck face 0 and
\* filled the window queues.
C17_Witness ==
    /\ pc = "raised" /\ Len(saved) >= 1
    /\ cum_strikes[0] >= 1 /\ max_pressures[0] > 0
    /\ pressure_window_queue # <<>>
    /\ "t" \in DOMAIN JFH[Len(JFH)]

\* ==================================================== degenerate geometry
\* The thruster at position k of the current thruster list and face i form
\* a degenerate pair: the thruster exit is on the face centroid, or the
\* face normal is the zero vector.
ZeroVector == <<0, 0, 0>>
DegenerateAt(i, k) ==
    \/ DistanceOf(i, link(CurrentRecord.thrusters[k])[1], CurrentRecord) = ZeroVector
    \/ TargetNormals[i + 1] = ZeroVector
\* The positions of the thruster list that strike face i without being
\* degenerate.
SoundStrikers(i) ==
    {k \in 1..Len(CurrentRecord.thrusters) : ~DegenerateAt(i, k) /\ StrikesAt(i, k)}
SoundContributions(i, Value(_)) ==
    [k \in 1..Len(CurrentRecord.thrusters) |->
        IF k \in SoundStrikers(i) THEN Value(PlumeAt(i, k)) ELSE 0]

\* C18: a thruster whose exit position coincides with a face's centroid, or
\* a face whose normal is the zero vector, is never a strike, and the
\* replay goes on: after the strike calculation cum_strikes has grown by
\* the number of non-degenerate striking pairs only, and the firing's
\* pressure, shear, heat-flux rate and load hold the contributions of
\* those pairs only.
C18_DegenerateNeverStrikes ==
    (pc = "constraints" /\ config.kinetics = "Simplified") =>
        \A i \in Faces :
            /\ cum_strikes[i] = CumStrikesBefore(i) + Cardinality(SoundStrikers(i))
            /\ strikes[i] = IF SoundStrikers(i) # {} THEN 1 ELSE 0
            /\ pressures[i] = SumSeq(SoundContributions(i, PressureOf))
            /\ shear_stresses[i] = SumSeq(SoundContributions(i, ShearOf))
            /\ heat_flux[i] = SumSeq(SoundContributions(i, HeatFluxOf))
            /\ heat_flux_load[i] = SumSeq(SoundContributions(i, HeatFluxOf)) * CurrentRecord.t

\* A firing whose only thruster has its exit on the centroid of face 0 and
\* fires straight at the zero-normal face 2, inside the plume radius: the
\* strike calculation has finished and nothing is struck.
C18_Witness ==
    /\ pc = "constraints" /\ Len(CurrentRecord.thrusters) = 1
    /\ DistanceOf(0, link(CurrentRecord.thrusters[1])[1], CurrentRecord) = ZeroVector
    /\ FacingThruster(0, PlumeNormal(link(CurrentRecord.thrusters[1])[1], CurrentRecord))
    /\ TargetNormals[3] = ZeroVector
    /\ LET thruster_id == link(CurrentRecord.thrusters[1])[1]
           distance == DistanceOf(2, thruster_id, CurrentRecord)
       IN  /\ WithinDistance(distance, config)
           /\ WithinTheta(distance, PlumeNormal(thruster_id, CurrentRecord), config)
    /\ \A i \in Faces : strikes[i] = 0 /\ cum_strikes[i] = CumStrikesBefore(i)

\* ========================================================= mesh artifacts
\* C20: the artifacts written are firing-0, firing-1, ... in increasing
\* order, one per firing processed, n of them when the n firings are done,
\* also for firings without active thruster or strike; the artifact of a
\* firing holds that firing's strikes, is written after its strike
\* calculation and its constraint block and is not touched afterwards, and
\* no record of a later firing is read before it is written.
C20_OneArtifactPerFiring ==
    /\ [](/\ \A k \in 1..Len(saved) : saved[k].name = k - 1
          /\ Len(saved) = firing
          /\ Len(JFH) = IF pc \in {"loop", "done"} THEN Len(saved) ELSE Len(saved) + 1
          /\ (pc = "loop" /\ Len(saved) >= 1) =>
                 saved[Len(saved)].cellData.strikes = FiringCells(JFH[Len(saved)]).strikes)
    /\ [][/\ saved' # saved =>
                 /\ pc = "save"
                 /\ saved' = Append(saved, saved'[Len(saved')])
          /\ pc' = "save" => pc = "constraints"
          /\ pc' = "constraints" => pc = "strikes"
          /\ JFH' # JFH => Len(saved) = Len(JFH)]_vars

\* Three firings are done and three artifacts exist; the second firing had
\* no active thruster, the first and the third struck a face.
C20_Witness ==
    /\ pc = "done" /\ Len(JFH) = 3 /\ Len(saved) = 3
    /\ JFH[2].thrusters = <<>>
    /\ \A i \in Faces : saved[2].cellData.strikes[i] = 0
    /\ \E i \in Faces : saved[1].cellData.strikes[i] = 1
    /\ \E i \in Faces : saved[3].cellData.strikes[i] = 1

\* ================================================== plume exit position
\* A row vector times a 3x3 matrix, v.dot(m).
VecMat(v, m) == [c \in 1..3 |-> v[1] * m[1][c] + v[2] * m[2][c] + v[3] * m[3][c]]
\* The vehicle position plus the vehicle orientation applied to the exit
\* offset of the thruster, the orientation being applied as it is to the
\* plume axis.
OrientedExitPos(thruster_id, rec) ==
    VecAdd(rec.xyz, VecMat(ThrusterData[thruster_id].exit[1], VVOrientation(rec)))

\* C21 as stated: for every firing read and every active thruster of it,
\* the exit position entering the strike test is the vehicle position plus
\* the vehicle orientation applied to the thruster's exit offset, for every
\* orientation and not only the identity.
C21_ExitPosFollowsOrientation ==
    \A n \in 1..Len(JFH) : \A k \in 1..Len(JFH[n].thrusters) :
        LET thruster_id == link(JFH[n].thrusters[k])[1]
        IN  ThrusterPos(thruster_id, JFH[n]) = OrientedExitPos(thruster_id, JFH[n])

\* ======================================================== thruster order
\* Firings whose thruster lists hold thrusters of both types striking the
\* same face.
OrderRecords ==
    [t : {10, 20}, xyz : {<<0, 0, 0>>}, dcm : {Identity},
     thrusters : {<<>>, <<1>>, <<1, 4>>, <<2, 1, 4>>}]

InitOrder == InitWith({WindowConfig})

NextOrder ==
    \/ \E rec \in OrderRecords : ReadFiring(rec)
    \/ CalcStrikes
    \/ CheckConstraints
    \/ SaveFiring
    \/ Finish

SpecOrder == InitOrder /\ [][NextOrder]_vars

\* Every order of the sequence s.
Orders(s) ==
    {[k \in 1..Len(s) |-> s[p[k]]] :
        p \in {q \in [1..Len(s) -> 1..Len(s)] : \A a, b \in 1..Len(s) : q[a] = q[b] => a = b}}
\* The per-cell state at the top of the current firing: the cumulative
\* fields as the previous firing persisted them, the others reset.
CellsBefore ==
    IF firing = 0 THEN ResetFiring(InitCells(config), config)
    ELSE [strikes |-> Zeros, pressures |-> Zeros, shear_stresses |-> Zeros,
          heat_flux |-> Zeros, heat_flux_load |-> Zeros,
          cum_strikes |-> saved[firing].cellData.cum_strikes,
          max_pressures |-> saved[firing].cellData.max_pressures,
          max_shears |-> saved[firing].cellData.max_shears,
          cum_heat_flux_load |-> saved[firing].cellData.cum_heat_flux_load]

C23_LoadIsRateTimesDuration ==
    config.kinetics = "Simplified" =>
        \A i \in Faces :
            /\ pc \in {"constraints", "save"} =>
                   heat_flux_load[i] = heat_flux[i] * CurrentRecord.t
            /\ \A k \in 1..Len(saved) :
                   saved[k].cellData.heat_flux_load[i] =
                       saved[k].cellData.heat_flux_rate[i] * JFH[k].t
            /\ pc \in {"loop", "done"} =>
                   cum_heat_flux_load[i] =
                       SumSeq([k \in 1..Len(saved) |-> saved[k].cellData.heat_flux_load[i]])

\* Two firings of different durations, the second with two thrusters of
\* different heat flux on face 0, have been processed.
C23_Witness ==
    /\ pc = "loop" /\ Len(saved) = 2
    /\ JFH[1].t = 20 /\ saved[1].cellData.heat_flux_load[0] = 20
    /\ JFH[2].t = 10 /\ saved[2].cellData.heat_flux_rate[0] = 3
    /\ cum_heat_flux_load[0] = 50

\* ============================================================ window sizes
\* tv window sizes below zero, zero and above, and durations from zero up.
WindowSizeConfigs ==
    {[BaseConfig EXCEPT !.normal_pressure_window_size = size[1],
                        !.heat_flux_window_size = size[2]] :
        size \in {<<-5, 10>>, <<0, 0>>, <<10, 25>>, <<25, -5>>}}
WindowSizeRecords ==
    [t : {0, 10, 20}, xyz : {<<0, 0, 0>>}, dcm : {Identity}, thrusters : {<<>>, <<1>>}]

InitWindowSizes == InitWith(WindowSizeConfigs)

NextWindowSizes ==
    \/ \E rec \in WindowSizeRecords : ReadFiring(rec)
    \/ CalcStrikes
    \/ CheckConstraints
    \/ SaveFiring
    \/ Finish

SpecWindowSizes == InitWindowSizes /\ [][NextWindowSizes]_vars

\* Queues of at most two non-negative durations.
SmallQueues ==
    {<<>>} \cup {<<a>> : a \in {0, 10, 20}} \cup {<<a, b>> : a, b \in {0, 10, 20}}
\* What a call of update_window_queue on window_queue, with cur_window the
\* sum of its durations, is to do.
WindowCallAsStated(window_queue, firing_time, window_size) ==
    LET r == update_window_queue(window_queue, SumSeq(window_queue), firing_time, window_size)
        k == r.get_counter
        n == Len(window_queue)
    IN  IF window_size >= 0
        THEN /\ ~r.blocked
             /\ 0 <= k /\ k <= n + 1
             /\ Len(r.window_queue) = n + 1 - k
             /\ r.window_queue = SubSeq(Append(window_queue, firing_time), k + 1, n + 1)
             /\ r.cur_window = SumSeq(r.window_queue)
        ELSE r.blocked

\* C24: update_window_queue, called on a queue of non-negative durations
\* whose sum is cur_window with a duration >= 0 and a window size >= 0,
\* returns without taking from an empty queue; the k it returns is the
\* number of durations it removed, 0 <= k <= previous length + 1, and the
\* queue is left with previous length + 1 - k durations.  With a window
\* size below zero it reaches the empty queue and does not return.  This
\* holds of the calls the replay makes and of every queue of at most two
\* durations.
C24_WindowQueueTerminates ==
    /\ (pc = "constraints" /\ Checking(config)) =>
           /\ pressure_cur_window = SumSeq(pressure_window_queue)
           /\ WindowCallAsStated(pressure_window_queue, CurrentRecord.t,
                                 config.normal_pressure_window_size)
           /\ heat_flux_cur_window = SumSeq(heat_flux_window_queue)
           /\ WindowCallAsStated(heat_flux_window_queue, CurrentRecord.t,
                                 config.heat_flux_window_size)
           /\ \A window_queue \in SmallQueues :
                  WindowCallAsStated(window_queue, CurrentRecord.t,
                                     config.normal_pressure_window_size)
    /\ pc = "blocked" =>
           (config.normal_pressure_window_size < 0 \/ config.heat_flux_window_size < 0)
    /\ (pc = "save" /\ Checking(config)) =>
           (config.normal_pressure_window_size >= 0 /\ config.heat_flux_window_size >= 0)

\* A firing longer than the pressure window came back from the call with
\* k = 2 = previous length + 1 and an empty queue.
C24_Witness ==
    /\ pc = "save" /\ Checking(config)
    /\ config.normal_pressure_window_size = 10
    /\ CurrentRecord.t = 20
    /\ track.pressure_get_counter = 2 /\ pressure_window_queue = <<>>

\* C25: in every firing, once the duration queues are updated, the
\* get_counter handed to update_parameter_queue is at most the length of
\* the per-face queue it is handed with, for every face whose pressure
\* queue is not empty and every face whose heat-flux queue is not empty and
\* whose heat-flux window sum is not 0; the replay never waits on a
\* per-face queue.
C25_CounterWithinQueue ==
    /\ (pc = "constraints" /\ Checking(config)) =>
           LET w == UpdateTimelines(PutParameters(track, cells), CurrentRecord.t, config)
           IN  ~w.blocked =>
                   \A i \in Faces :
                       /\ w.pressure_queues[i] # <<>> =>
                              /\ w.pressure_get_counter <= Len(w.pressure_queues[i])
                              /\ ~EvictPressure(w, i).blocked
                       /\ (w.heat_flux_queues[i] # <<>> /\ w.heat_flux_window_sums[i] # 0) =>
                              /\ w.heat_flux_get_counter <= Len(w.heat_flux_queues[i])
                              /\ ~EvictHeatFlux(w, i).blocked
    /\ pc = "blocked" =>
           (config.normal_pressure_window_size < 0 \/ config.heat_flux_window_size < 0)

\* A firing longer than both windows emptied every pressure queue and the
\* heat-flux queue of the struck face 0: the counter was equal to the
\* queues' length.
C25_Witness ==
    /\ pc = "save" /\ Checking(config)
    /\ firing >= 1 /\ track.pressure_get_counter = 2 /\ track.heat_flux_get_counter = 2
    /\ pressures[0] > 0
    /\ \A i \in Faces : pressure_queues[i] = <<>>
    /\ heat_flux_queues[0] = <<>>

\* ========================================================= first violation
\* Thresholds chosen so that each kind of check can be the first to fail.
ReportConfigs ==
    {[BaseConfig EXCEPT !.normal_pressure = th[1], !.shear_pressure = th[2],
                        !.heat_flux = th[3], !.normal_pressure_load = th[4],
                        !.heat_flux_load = th[5]] :
        th \in {<<4, 3, 1, 5, 20>>, <<100, 3, 1, 5, 20>>, <<100, 100, 2, 5, 20>>,
                <<100, 100, 100, 5, 20>>, <<100, 100, 100, 1000, 20>>}}

InitReport == InitWith(ReportConfigs)

NextReport ==
    \/ \E rec \in OrderRecords : ReadFiring(rec)
    \/ CalcStrikes
    \/ CheckConstraints
    \/ SaveFiring
    \/ Finish

SpecReport == InitReport /\ [][NextReport]_vars

\* The place of a kind of check among the five checks of a face.
KindRank(kind) ==
    CASE kind = "Pressure" -> 1 [] kind = "Shear" -> 2 [] kind = "Heat flux" -> 3
      [] kind = "Pressure window" -> 4 [] kind = "Heat flux window" -> 5
\* d comes before e: earlier firing, then lower face, then earlier check.
ComesBefore(d, e) ==
    \/ d.firing < e.firing
    \/ d.firing = e.firing /\ d.cell < e.cell
    \/ d.firing = e.firing /\ d.cell = e.cell /\ KindRank(d.kind) < KindRank(e.kind)
AllDetected == {detected[k] : k \in 1..Len(detected)}
EarliestDetected ==
    CHOOSE d \in AllDetected : \A e \in AllDetected : e = d \/ ComesBefore(d, e)

\* C26: the violation reported is the failing check of the earliest firing
\* with a failing check, of the lowest-index face failing in that firing
\* and of the first failing kind of that face in the order pressure, shear,
\* heat-flux rate, pressure window, heat-flux-load window: the record has
\* that check's kind and value (and, for a window kind, its face), and it
\* is written in the firing in which the first check fails.
C26_EarliestViolationReported ==
    /\ [](\A k \in 1..Len(constraint_file) :
             constraint_file[k].line = "failed" =>
                 /\ detected # <<>>
                 /\ constraint_file[k].kind = EarliestDetected.kind
                 /\ constraint_file[k].value = EarliestDetected.value
                 /\ KindRank(constraint_file[k].kind) >= 4 =>
                        constraint_file[k].cell = EarliestDetected.cell)
    /\ [][Failures(constraint_file') # Failures(constraint_file) =>
              (detected = <<>> /\ detected' # <<>>)]_vars

\* Faces 0 and 1 both failed checks in the first failing firing, with
\* different values, face 0 on more than one kind, and a later firing
\* failed too; the report holds the one record.
C26_Witness ==
    /\ pc = "done" /\ Len(Failures(constraint_file)) = 1
    /\ LET d == EarliestDetected
       IN  /\ d.firing >= 1
           /\ \E e \in AllDetected :
                  e.firing = d.firing /\ e.cell = d.cell /\ e.kind # d.kind
           /\ \E f \in AllDetected :
                  f.firing = d.firing /\ f.cell > d.cell /\ f.kind = d.kind /\ f.value # d.value
           /\ \E g \in AllDetected : g.firing > d.firing

\* ======================================================== strike counting
\* The entries of the thruster list of firing record number n that strike
\* face i.
StrikingEntries(i, n) ==
    {k \in 1..Len(JFH[n].thrusters) : IsStrike(i, link(JFH[n].thrusters[k])[1], JFH[n], config)}

\* C27: after any sequence of firings, cum_strikes[i] is the number of
\* (firing, thruster entry) pairs that struck face i: each firing raises
\* it by the number m of its thruster entries striking the face while its
\* strikes flag is 1 if m > 0 and 0 otherwise, so cum_strikes[i] is at
\* least the sum of the flags over the firings.
C27_CumStrikesCountsPairs ==
    pc \in {"loop", "done"} =>
        \A i \in Faces :
            /\ cum_strikes[i] =
                   SumSeq([n \in 1..Len(saved) |-> Cardinality(StrikingEntries(i, n))])
            /\ cum_strikes[i] >=
                   SumSeq([n \in 1..Len(saved) |-> saved[n].cellData.strikes[i]])
            /\ \A n \in 1..Len(saved) :
                   /\ saved[n].cellData.cum_strikes[i] =
                          (IF n = 1 THEN 0 ELSE saved[n - 1].cellData.cum_strikes[i])
                              + Cardinality(StrikingEntries(i, n))
                   /\ saved[n].cellData.strikes[i] =
                          IF StrikingEntries(i, n) # {} THEN 1 ELSE 0

\* Two firings struck face 0, one of them with two thrusters: the flags
\* sum to 2 and cum_strikes is 3.
C27_Witness ==
    /\ pc = "loop" /\ Len(saved) = 2
    /\ saved[1].cellData.strikes[0] = 1 /\ saved[2].cellData.strikes[0] = 1
    /\ Cardinality(StrikingEntries(0, 1)) = 2
    /\ cum_strikes[0] = 3

\* ================================================= firing and its window
\* C28: after the window update of a firing, the firing's own pressure is
\* the newest entry of every face's pressure queue if and only if its
\* duration is at most normal_pressure_window_size; a firing longer than
\* the window leaves every face's pressure queue empty and every pressure
\* window sum 0, and no pressure-window check of that firing fails.
C28_OwnEntryResidentIffFits ==
    (pc = "save" /\ Checking(config)) =>
        IF CurrentRecord.t <= config.normal_pressure_window_size
        THEN \A i \in Faces :
                 /\ pressure_queues[i] # <<>>
                 /\ pressure_queues[i][Len(pressure_queues[i])] = pressures[i]
                 /\ pressure_window_queue[Len(pressure_window_queue)] = CurrentRecord.t
        ELSE /\ \A i \in Faces : pressure_queues[i] = <<>> /\ pressure_window_sums[i] = 0
             /\ pressure_window_queue = <<>>
             /\ \A k \in 1..Len(detected) :
                    ~(detected[k].firing = firing /\ detected[k].kind = "Pressure window")
             /\ \A k \in 1..Len(constraint_file) :
                    (constraint_file[k].line = "failed"
                        /\ constraint_file[k].kind = "Pressure window") =>
                        \E j \in 1..Len(detected) : detected[j].firing < firing

\* A firing longer than the pressure window struck face 0 with a pressure
\* above the pressure-load threshold, after a firing that was resident:
\* the queues are empty and no pressure-window violation is reported.
C28_Witness ==
    /\ pc = "save" /\ Checking(config) /\ firing >= 1
    /\ CurrentRecord.t > config.normal_pressure_window_size
    /\ JFH[firing].t <= config.normal_pressure_window_size
    /\ pressures[0] > config.normal_pressure_load
    /\ pressure_window_sums[0] = 0
    /\ \A k \in 1..Len(constraint_file) : constraint_file[k].kind # "Pressure window"

\* ====================================================== order of firings
\* Histories for comparing the orders of a run's firings: short and long
\* firings of no thruster, of one, and of two that strike the same face.
PermuteRecords ==
    [t : {10, 20}, xyz : {<<0, 0, 0>>}, dcm : {Identity},
     thrusters : {<<>>, <<1>>, <<1, 4>>}]

InitPermute == InitWith({WindowConfig})

NextPermute ==
    \/ \E rec \in PermuteRecords : ReadFiring(rec)
    \/ CalcStrikes
    \/ CheckConstraints
    \/ SaveFiring
    \/ Finish

SpecPermute == InitPermute /\ [][NextPermute]_vars

\* The per-cell state and the window state a sequence of firing records
\* leaves behind, processed from the initial state in the order given.
RECURSIVE RunCells(_)
RunCells(records) ==
    IF records = <<>> THEN InitCells(config)
    ELSE LET rec == records[Len(records)]
             before == RunCells(SubSeq(records, 1, Len(records) - 1))
         IN  ThrusterLoop(ResetFiring(before, config), rec.thrusters, rec, config)
RECURSIVE RunTrack(_)
RunTrack(records) ==
    IF records = <<>> THEN InitTrack(config)
    ELSE LET rec == records[Len(records)]
             before == RunTrack(SubSeq(records, 1, Len(records) - 1))
         IN  IF Checking(config)
             THEN ConstraintBlock(before, RunCells(records), rec.t, config)
             ELSE before

C30_CumulativeFieldsIgnoreOrder ==
    pc = "done" =>
        \A records \in Orders(JFH) :
            LET other == RunCells(records)
            IN  /\ other.cum_strikes = cells.cum_strikes
                /\ other.cum_heat_flux_load = cells.cum_heat_flux_load

\* A complete run of three firings with a loaded face, and another order
\* of the same records that ends with other window sums and reports a
\* violation of another kind.
C30_Witness ==
    /\ pc = "done" /\ Len(JFH) = 3
    /\ cells.cum_strikes[0] >= 2 /\ cells.cum_heat_flux_load[0] > 0
    /\ Failures(constraint_file) # <<>>
    /\ \E records \in Orders(JFH) :
          LET other == RunTrack(records)
          IN  /\ records # JFH
              /\ other.pressure_window_sums # pressure_window_sums
              /\ other.heat_flux_window_sums # track.heat_flux_window_sums
              /\ Failures(other.constraint_file) # <<>>
              /\ Failures(other.constraint_file)[1].kind # Failures(constraint_file)[1].kind

====
